---- MODULE Spec2Model ----
(***************************************************************************)
(* A model of xraylib/f2w.py: the Detector class (geometry cache, radial   *)
(* integration, iterative calibration) and the get_detector factory.       *)
(*                                                                         *)
(* Conventions of the model                                                *)
(*  - Lengths are integers (one unit = one pixel pitch of the small        *)
(*    detector used here).  A radius is a fixed-point number with          *)
(*    denominator Q; sqrt rounds down.  All other arithmetic is exact, so  *)
(*    weights and bin sums are rationals kept as numerators.               *)
(*  - A flattened pixel grid is a sequence indexed 1..P (numpy index k is  *)
(*    model index k+1); python's v[0], v[1] are v[1], v[2].                *)
(*  - numpy semantics are those the code was written against (python 2,    *)
(*    numpy of 2012): a boolean mask shorter than the indexed array        *)
(*    selects among the leading elements.                                  *)
(*  - A bin value num/den is kept as the pair <<num, den>>; <<0, 0>> is    *)
(*    the value 0 of a bin that received no weight.                        *)
(***************************************************************************)
EXTENDS Integers, Sequences, FiniteSets, TLC

(***************************************************************************)
(* Bounds of the model.                                                    *)
(***************************************************************************)
Rows == 2
Cols == 3
Q == 4

(***************************************************************************)
(* Program constants.                                                      *)
(***************************************************************************)
NaN == -1
PiNum == 22
PiDen == 7
HalfTurn == 180
NPies == 36
MaxLoops == 30
InitialStep == 100
Threshold == 10

(***************************************************************************)
(* Floating point helpers: intensities are naturals or NaN.                *)
(***************************************************************************)
isnan(v) == v = NaN

FAdd(a, b) == IF isnan(a) \/ isnan(b) THEN NaN ELSE a + b

FSub(a, b) == IF isnan(a) \/ isnan(b) THEN NaN ELSE a - b

ISqrt(n) == CHOOSE s \in 0..n : s * s <= n /\ (s + 1) * (s + 1) > n

\* numpy int_ of a non-integral quotient a/b: truncation toward zero.
Trunc(a, b) == IF a >= 0 THEN a \div b ELSE -((-a) \div b)

\* numpy floor(a/b + 0.5).
RoundHalfUp(a, b) == (2 * a + b) \div (2 * b)

\* A sequence given by a rule, held as the tuple of its elements.
Tuple(f) == f \o <<>>

\* cumsum: a NaN element makes every later partial sum NaN.
cumsum(s) ==
    LET c[p \in 0..Len(s)] == IF p = 0 THEN 0 ELSE FAdd(c[p - 1], s[p])
    IN  Tuple([p \in 1..Len(s) |-> c[p]])

\* diff(hstack((0, s))).
diff0(s) == Tuple([p \in 1..Len(s) |-> IF p = 1 THEN s[1] ELSE FSub(s[p], s[p - 1])])

\* argsort: the permutation that orders R ascending (ties by index).
argsort(R) ==
    LET n == Len(R)
        rank(k) == Cardinality({m \in 1..n : R[m] < R[k] \/ (R[m] = R[k] /\ m < k)}) + 1
    IN  Tuple([p \in 1..n |-> CHOOSE k \in 1..n : rank(k) = p])

\* The positions 1..Len(mask) at which mask holds, ascending (numpy nonzero).
nonzero(mask) == SelectSeq([p \in 1..Len(mask) |-> p], LAMBDA p : mask[p])

\* s[idx] for a sequence of positions idx.
Take(s, idx) == Tuple([q \in 1..Len(idx) |-> s[idx[q]]])

\* s[mask] for a boolean mask no longer than s.
Masked(s, mask) == Take(s, nonzero(mask))

(***************************************************************************)
(* Detector._calcrt: per-pixel radius and azimuth, radial bin structure.   *)
(* o is the record of the geometry parameters the method reads.            *)
(***************************************************************************)
NPix(o) == o.pixels[1] * o.pixels[2]

XOf(o, k) == ((k - 1) % o.pixels[2]) * o.pixelsize[2] - o.origin[2]

YOf(o, k) == ((k - 1) \div o.pixels[2]) * o.pixelsize[1] - o.origin[1]

\* sqrt(x**2+y**2)*(1.0-a*y-b*x) with a = tilt[0]*pi/180/distance, in units 1/Q.
Radius(o, k) ==
    LET x == XOf(o, k)
        y == YOf(o, k)
        den == PiDen * HalfTurn * o.distance
    IN  (ISqrt(Q * Q * (x * x + y * y)) * (den - PiNum * (o.tilt[1] * y + o.tilt[2] * x))) \div den

\* arctan2(y,x) is kept as its argument pair; Sector evaluates it.
Azimuth(o, k) == <<YOf(o, k), XOf(o, k)>>

BinPitch(o) == ISqrt(o.pixelsize[1] * o.pixelsize[2])

calcrtBody(o) ==
    LET P    == NPix(o)
        R    == Tuple([k \in 1..P |-> Radius(o, k)])
        T    == Tuple([k \in 1..P |-> Azimuth(o, k)])
        Rind == argsort(R)
        n    == Tuple([p \in 1..P |-> p])
        dr   == BinPitch(o)
        i    == Tuple([p \in 1..P |-> RoundHalfUp(R[Rind[p]], Q * dr)])
        jind == Tuple([p \in 1..(P - 1) |-> 0 < i[p + 1] - i[p]])
        iB   == Masked(i, jind)
    IN  [R |-> R, T |-> T, Rind |-> Rind, dr |-> dr, jind |-> jind,
         nR |-> Tuple([q \in 1..Len(iB) |-> iB[q] * dr]),
         dcj |-> diff0(Masked(n, jind))]

(***************************************************************************)
(* int_(floor(T/dp+0.5) % n) for dp = 2*pi/n, evaluated exactly from the   *)
(* signs of the arctan2 arguments for n = 2 and, otherwise, n = 4: the     *)
(* sector counts of the integrate calls whose profile the model computes.  *)
(***************************************************************************)
Sector(t, n) ==
    LET y == t[1]
        x == t[2]
    IN  IF n = 2
        THEN IF x > 0 \/ (x = 0 /\ y <= 0) THEN 0 ELSE 1
        ELSE IF (x = 0 /\ y = 0) \/ (x > 0 /\ -x <= y /\ y < x) THEN 0
             ELSE IF y > 0 /\ ((x >= 0 /\ y >= x) \/ (x < 0 /\ y > -x)) THEN 1
             ELSE IF x < 0 /\ ((y >= 0 /\ y <= -x) \/ (y < 0 /\ y > x)) THEN 2
             ELSE 3

(***************************************************************************)
(* Detector._pie: triangular splatting of a pixel subset into radial bins. *)
(* Im and R are the subset's intensities and radii (units 1/Q).  Weights   *)
(* are numerators over W = Q*dr.  pieAC is the state before line 97: the   *)
(* accumulated intensity A and weight C of bins 0..m-1 (index b+1).        *)
(***************************************************************************)
pieAC(Im, R, dr) ==
    LET mn  == Len(Im)
        j   == argsort(R)
        W   == Q * dr
        ir  == Tuple([p \in 1..mn |-> Trunc(R[j[p]], W)])
        nan == Tuple([p \in 1..mn |-> isnan(Im[j[p]])])
        w0  == Tuple([p \in 1..mn |-> IF nan[p] THEN 0 ELSE W + ir[p] * W - R[j[p]]])
        w1  == Tuple([p \in 1..mn |-> IF nan[p] THEN 0 ELSE R[j[p]] - ir[p] * W])
        c0  == Tuple([p \in 1..mn |-> IF nan[p] THEN 0 ELSE w0[p] * Im[j[p]]])
        c1  == Tuple([p \in 1..mn |-> IF nan[p] THEN 0 ELSE w1[p] * Im[j[p]]])
        i   == nonzero(Tuple([p \in 1..(mn - 1) |-> ir[p + 1] # ir[p]]))
        m   == ir[mn] + 2
        bin == Take(ir, i)
        ta0 == diff0(Take(cumsum(c0), i))
        tc0 == diff0(Take(cumsum(w0), i))
        ta1 == diff0(Take(cumsum(c1), i))
        tc1 == diff0(Take(cumsum(w1), i))
        at(s, b) == IF \E q \in 1..Len(i) : bin[q] = b
                    THEN s[CHOOSE q \in 1..Len(i) : bin[q] = b] ELSE 0
    IN  [A |-> Tuple([b \in 1..m |-> at(ta0, b - 1) + at(ta1, b - 2)]),
         C |-> Tuple([b \in 1..m |-> at(tc0, b - 1) + at(tc1, b - 2)])]

pie(Im, R, dr) ==
    LET ac == pieAC(Im, R, dr)
    IN  Tuple([b \in 1..Len(ac.A) |-> <<ac.A[b], ac.C[b]>>])

(***************************************************************************)
(* Detector.integrate, lines 75-87, on the cache attributes v the call     *)
(* reads after its staleness test.  An image is a contiguous array:        *)
(* [shape |-> <<rows, cols>>, data |-> the row-major values].              *)
(***************************************************************************)
SectorPixels(v, n, i) ==
    SelectSeq([k \in 1..Len(v.T) |-> k], LAMBDA k : Sector(v.T[k], n) = i)

MaxLen(cols) == CHOOSE M \in {Len(cols[i]) : i \in DOMAIN cols} :
                    \A i \in DOMAIN cols : Len(cols[i]) <= M

integrateOut(v, Im, n) ==
    LET Imc == Im.data
        P   == Len(v.R)
    IN  IF n > 1
        THEN LET j(i)  == SectorPixels(v, n, i)
                 bad   == \E i \in 0..(n - 1) :
                             Len(j(i)) = 0 \/ j(i)[Len(j(i))] > Len(Imc)
                 a     == Tuple([i \in 1..n |-> pie(Take(Imc, j(i - 1)), Take(v.R, j(i - 1)), v.dr)])
                 M     == MaxLen(a)
             IN  IF bad
                 THEN [status |-> "IndexError"]
                 ELSE [status |-> "ok", r |-> v.nR,
                       A |-> Tuple([i \in 1..n |-> Tuple(
                               [b \in 1..M |-> IF b <= Len(a[i]) THEN a[i][b] ELSE <<0, 0>>])])]
        ELSE IF P > Len(Imc) \/ Len(v.nR) = 0
             THEN [status |-> "IndexError"]
             ELSE LET c == Masked(cumsum(Take(Imc, v.Rind)), v.jind)
                      A == diff0(c)
                  IN  [status |-> "ok", r |-> v.nR,
                       A |-> Tuple([b \in 1..Len(A) |-> <<A[b], v.dcj[b]>>])]

(***************************************************************************)
(* Objects.  klass holds the attributes declared on class Detector, inst   *)
(* the instance dictionaries; a world is the pair.  Attribute lookup goes  *)
(* to the instance first and to the class second; assignment through self  *)
(* writes the instance.                                                    *)
(***************************************************************************)
VARIABLES klass, inst, ret

vars == <<klass, inst, ret>>

World == [klass |-> klass, inst |-> inst]

ClassDefaults == [T |-> <<>>, R |-> <<>>, dr |-> <<>>, updated |-> FALSE]

Store(f, g) == [a \in DOMAIN f \cup DOMAIN g |-> IF a \in DOMAIN g THEN g[a] ELSE f[a]]

hasattr(w, d, a) == a \in DOMAIN w.inst[d] \/ a \in DOMAIN w.klass

getattr(w, d, a) == IF a \in DOMAIN w.inst[d] THEN w.inst[d][a] ELSE w.klass[a]

\* self.a1 = v1; self.a2 = v2; ... for the record g of assignments.
SetAttrsClassLevel(w, d, g) == [w EXCEPT !.klass = Store(@, g)]

setattrs(w, d, g) == [w EXCEPT !.inst[d] = Store(@, g)]

CacheAttrs == {"R", "T", "Rind", "dr", "jind", "nR", "dcj"}

ParamAttrs == {"distance", "origin", "tilt", "pixels", "pixelsize"}

Params(w, d) == [a \in ParamAttrs |-> getattr(w, d, a)]

\* The cache attributes a call finds through self (absent ones left out).
Cache(w, d) == [a \in {b \in CacheAttrs : hasattr(w, d, b)} |-> getattr(w, d, a)]

setdist(w, d, D) == setattrs(w, d, [distance |-> D, updated |-> FALSE])

SetOriginKeepsCache(w, d, v) == setattrs(w, d, [origin |-> v])

setorigin(w, d, v) == setattrs(w, d, [origin |-> v, updated |-> FALSE])

settilt(w, d, v) == setattrs(w, d, [tilt |-> v, updated |-> FALSE])

AlwaysStale(w, d) == TRUE

\* not self._updated
Stale(w, d) == ~getattr(w, d, "updated")

calcrt(w, d) ==
    IF Stale(w, d)
    THEN setattrs(w, d, Store(calcrtBody(Params(w, d)), [updated |-> TRUE]))
    ELSE w

\* integrate: the world after the call, its outcome, the geometry it read and
\* the number of times the body of _calcrt ran.
integrate(w, d, Im, n) ==
    LET stale == Stale(w, d)
        w1    == IF stale THEN calcrt(w, d) ELSE w
        ok    == \A a \in CacheAttrs : hasattr(w1, d, a)
    IN  [w |-> w1,
         out |-> IF ok THEN integrateOut(Cache(w1, d), Im, n)
                       ELSE [status |-> "AttributeError"],
         geom |-> Cache(w1, d),
         ncalc |-> IF stale THEN 1 ELSE 0]

(***************************************************************************)
(* Detector.calibrate, lines 98-108.  The first pass of the loop calls     *)
(* integrate(Im, N), which recomputes a stale cache and then either raises *)
(* IndexError itself (a sector without pixels, an image too small) or      *)
(* returns r = self._nR, a one-dimensional array; line 108 then indexes    *)
(* r[i,:], two indices into one dimension, which numpy refuses with        *)
(* IndexError.  Either way the call ends in IndexError in its first pass,  *)
(* before line 120: lines 109-126 never run, and the call's only effect is *)
(* the one of integrate on the cache.  The step metric is in hundredths.   *)
(***************************************************************************)
\* stp = 1; loops = 0
calibrateEntry == [stp |-> InitialStep, loops |-> 0]

\* (0.1 < stp) and (loops < 30)
LoopCond(c) == Threshold < c.stp /\ c.loops < MaxLoops

calibrate(w, d, Im) ==
    LET c == calibrateEntry
    IN  IF LoopCond(c)
        THEN LET res == integrate(w, d, Im, NPies)
             IN  [w |-> res.w, status |-> "IndexError", loops |-> c.loops,
                  geom |-> res.geom, ncalc |-> res.ncalc]
        ELSE [w |-> w, status |-> "ok", loops |-> c.loops,
              geom |-> Cache(w, d), ncalc |-> 0]

(***************************************************************************)
(* Inputs.  A small detector stands for a Detector subclass (as Pixium and *)
(* Perkin are) with a Rows x Cols grid of unit pitch.                      *)
(***************************************************************************)
Small == [distance |-> 2, origin |-> <<0, 0>>, tilt |-> <<0, 0>>,
          pixels |-> <<Rows, Cols>>, pixelsize |-> <<1, 1>>]

Dets == {1, 2}

Distances == {2, 4}

Origins == {<<0, 0>>, <<1, 1>>}

Tilts == {<<0, 0>>, <<20, 20>>}

Ramp(r, c) == [shape |-> <<r, c>>, data |-> Tuple([k \in 1..(r * c) |-> k])]

Flat(r, c) == [shape |-> <<r, c>>, data |-> Tuple([k \in 1..(r * c) |-> 1])]

WithNaN(Im, k) == [Im EXCEPT !.data[k] = NaN]

Images == {Ramp(Rows, Cols)}

\* Images of the grid's shape with at most one unmeasured pixel, and images
\* of another shape: transposed, one row more, one column less.
ImagesBin ==
    {Ramp(Rows, Cols), Flat(Rows, Cols)}
        \cup {WithNaN(Ramp(Rows, Cols), k) : k \in 1..(Rows * Cols)}
        \cup {Ramp(Cols, Rows), Ramp(Rows + 1, Cols), Ramp(Rows, Cols - 1)}

PieCounts == {1, 2}

PieCountsBin == {1, 2, 4}

(***************************************************************************)
(* Actions: one per call on a detector d (calls are synchronous: a call    *)
(* runs to its return or its exception).  ret is the outcome of the latest *)
(* call.                                                                   *)
(***************************************************************************)
Commit(w) == klass' = w.klass /\ inst' = w.inst

SetDist(d, D) ==
    /\ Commit(setdist(World, d, D))
    /\ ret' = [det |-> d, op |-> "setdist"]

SetOrigin(d, v) ==
    /\ Commit(setorigin(World, d, v))
    /\ ret' = [det |-> d, op |-> "setorigin"]

SetTilt(d, v) ==
    /\ Commit(settilt(World, d, v))
    /\ ret' = [det |-> d, op |-> "settilt"]

Integrate(d, Im, n) ==
    \E res \in {integrate(World, d, Im, n)} :
        /\ Commit(res.w)
        /\ ret' = [det |-> d, op |-> "integrate", Im |-> Im, n |-> n,
                   ncalc |-> res.ncalc, geom |-> res.geom, out |-> res.out]

Calibrate(d, Im) ==
    \E res \in {calibrate(World, d, Im)} :
        /\ Commit(res.w)
        /\ ret' = [det |-> d, op |-> "calibrate", Im |-> Im, status |-> res.status,
                   loops |-> res.loops, ncalc |-> res.ncalc, geom |-> res.geom]

Init ==
    /\ klass = ClassDefaults
    /\ inst = [d \in Dets |-> Small]
    /\ ret = [det |-> 0, op |-> "none"]

(***************************************************************************)
(* Spec: one detector, every call.                                         *)
(***************************************************************************)
Next ==
    \/ \E D \in Distances : SetDist(1, D)
    \/ \E v \in Origins : SetOrigin(1, v)
    \/ \E v \in Tilts : SetTilt(1, v)
    \/ \E Im \in Images, n \in PieCounts : Integrate(1, Im, n)
    \/ \E Im \in Images : Calibrate(1, Im)

Spec == Init /\ [][Next]_vars

(***************************************************************************)
(* SpecTwo: two detectors, each driven by its own caller, every            *)
(* interleaving of their calls.                                            *)
(***************************************************************************)
NextTwo ==
    \E d \in Dets :
        \/ \E D \in Distances : SetDist(d, D)
        \/ \E v \in Origins : SetOrigin(d, v)
        \/ \E v \in Tilts : SetTilt(d, v)
        \/ \E Im \in Images, n \in PieCounts : Integrate(d, Im, n)
        \/ \E Im \in Images : Calibrate(d, Im)

SpecTwo == Init /\ [][NextTwo]_vars

(***************************************************************************)
(* SpecBin: one detector, setters and integrate over images with           *)
(* unmeasured pixels and images of other shapes.                           *)
(***************************************************************************)
NextBin ==
    \/ \E D \in Distances : SetDist(1, D)
    \/ \E v \in Origins : SetOrigin(1, v)
    \/ \E v \in Tilts : SetTilt(1, v)
    \/ \E Im \in ImagesBin, n \in PieCountsBin : Integrate(1, Im, n)

SpecBin == Init /\ [][NextBin]_vars

(***************************************************************************)
(* get_detector and the preset classes.  A name is a sequence of           *)
(* characters.  Preset lengths are in micrometres (147.84 mm = 147840);    *)
(* a preset detector is only constructed here, never integrated.           *)
(***************************************************************************)
MaxObjs == 2

LowerLetters == <<"a", "b", "c", "d", "e", "f", "g", "h", "i", "j", "k", "l", "m",
                  "n", "o", "p", "q", "r", "s", "t", "u", "v", "w", "x", "y", "z">>

UpperLetters == <<"A", "B", "C", "D", "E", "F", "G", "H", "I", "J", "K", "L", "M",
                  "N", "O", "P", "Q", "R", "S", "T", "U", "V", "W", "X", "Y", "Z">>

NoLower(name) == name

\* str.lower()
lower(name) ==
    Tuple([i \in 1..Len(name) |->
             IF \E k \in 1..26 : UpperLetters[k] = name[i]
             THEN LowerLetters[CHOOSE k \in 1..26 : UpperLetters[k] = name[i]]
             ELSE name[i]])

AllowedKeys == {"distance", "tilt", "origin"}

\* utils.toFloat is imported from a module outside the modelled sources: its
\* result is kept symbolic, as the conversion applied to v.
toFloat(v) == <<"toFloat", v>>

\* Detector.__init__: the allowed keyword arguments override the defaults.
DetectorInit(self, kwargs) ==
    Store(self, [k \in DOMAIN kwargs \cap AllowedKeys |-> toFloat(kwargs[k])])

Pixium(kwargs) ==
    DetectorInit([distance |-> 1000000, origin |-> <<147840, 203280>>, tilt |-> <<0, 0>>,
                  pixels |-> <<1920, 2640>>, pixelsize |-> <<154, 154>>], kwargs)

Perkin(kwargs) ==
    DetectorInit([distance |-> 1000000, origin |-> <<204800, 204800>>, tilt |-> <<0, 0>>,
                  pixels |-> <<2048, 2048>>, pixelsize |-> <<200, 200>>], kwargs)

PerkinKey == <<"p", "e", "r", "k", "i", "n">>

PixiumKey == <<"p", "i", "x", "i", "u", "m">>

detectors == {PerkinKey, PixiumKey}

\* 'Detector %s not known.' % (name,)
NotKnown(name) ==
    <<"D", "e", "t", "e", "c", "t", "o", "r", " ">> \o name
        \o <<" ", "n", "o", "t", " ", "k", "n", "o", "w", "n", ".">>

get_detector(name, kwargs) ==
    LET _name == lower(name)
    IN  IF _name \in detectors
        THEN [status |-> "ok",
              obj |-> IF _name = PerkinKey THEN Perkin(kwargs) ELSE Pixium(kwargs)]
        ELSE [status |-> "Exception", message |-> NotKnown(name)]

\* Inputs: every case variant of the two keys, and names that are none.
Upper(c) == IF \E k \in 1..26 : LowerLetters[k] = c
            THEN UpperLetters[CHOOSE k \in 1..26 : LowerLetters[k] = c] ELSE c

Variants(key) ==
    {Tuple([i \in 1..Len(key) |-> IF i \in S THEN Upper(key[i]) ELSE key[i]]) :
        S \in SUBSET (1..Len(key))}

OtherNames ==
    {<<"u", "n", "k", "n", "o", "w", "n">>, <<"U", "n", "k", "n", "o", "w", "n">>,
     <<"P", "I", "X", "I", "U">>, <<"p", "i", "x", "i", "u", "m", "2">>,
     <<"P", "e", "r", "k", "i", "n", " ">>, <<>>}

Names == Variants(PixiumKey) \cup Variants(PerkinKey) \cup OtherNames

NoKwargs == [k \in {} |-> 0]

KwargsSet == {NoKwargs, [pixels |-> <<1, 1>>], [distance |-> 5]}

GetDetector(name, kwargs) ==
    \E res \in {get_detector(name, kwargs)} :
       \/ /\ res.status = "ok"
          /\ Len(inst) < MaxObjs
          /\ inst' = Append(inst, res.obj)
          /\ ret' = [det |-> Len(inst) + 1, op |-> "get_detector", name |-> name,
                     kwargs |-> kwargs, status |-> "ok"]
          /\ UNCHANGED klass
       \/ /\ res.status = "Exception"
          /\ ret' = [det |-> 0, op |-> "get_detector", name |-> name,
                     kwargs |-> kwargs, status |-> "Exception", message |-> res.message]
          /\ UNCHANGED <<klass, inst>>

InitFactory ==
    /\ klass = ClassDefaults
    /\ inst = <<>>
    /\ ret = [det |-> 0, op |-> "none"]

NextFactory == \E name \in Names, kwargs \in KwargsSet : GetDetector(name, kwargs)

SpecFactory == InitFactory /\ [][NextFactory]_vars

(***************************************************************************)
(* Properties.                                                             *)
(***************************************************************************)
WorldNext == [klass |-> klass', inst |-> inst']

IsSetter(op) == op \in {"setdist", "setorigin", "settilt"}

SumSeq(s) ==
    LET c[p \in 0..Len(s)] == IF p = 0 THEN 0 ELSE c[p - 1] + s[p]
    IN  c[Len(s)]

\* C1: every setter leaves the geometry marked stale, and every integrate
\* call, the one that opens the pass of calibrate included, reads geometry
\* (and computes its profile from geometry) derived from the distance, origin
\* and tilt current at that call.
C1_IntegrateReadsCurrentGeometry ==
    [][ /\ IsSetter(ret'.op) => ~getattr(WorldNext, ret'.det, "updated")
        /\ ret'.op \in {"integrate", "calibrate"} =>
             LET g == calcrtBody(Params(World, ret'.det))
             IN  /\ ret'.geom = g
                 /\ ret'.op = "integrate" => ret'.out = integrateOut(g, ret'.Im, ret'.n)
      ]_vars

\* An integrate call has returned a profile over the geometry of an origin
\* and a tilt set after an earlier integrate call had cached another one.
C1_Witness ==
    /\ ret.op = "integrate"
    /\ ret.out.status = "ok"
    /\ ret.ncalc = 1
    /\ getattr(World, 1, "origin") = <<1, 1>>
    /\ getattr(World, 1, "tilt") = <<20, 20>>
    /\ ret.geom = calcrtBody([Small EXCEPT !.origin = <<1, 1>>, !.tilt = <<20, 20>>])
    /\ ret.geom # calcrtBody(Small)

\* C2: an integrate call on a stale cache runs the recomputation once and
\* leaves the cache valid; an integrate call on a valid cache runs none,
\* leaves the cached geometry unchanged, and returns what the previous
\* integrate call with the same arguments returned.
C2_RecomputedOncePerInvalidation ==
    [][ ret'.op = "integrate" =>
          LET d == ret'.det
          IN  IF getattr(World, d, "updated")
              THEN /\ ret'.ncalc = 0
                   /\ Cache(WorldNext, d) = Cache(World, d)
                   /\ (ret.op = "integrate" /\ ret.det = d /\ ret.Im = ret'.Im /\ ret.n = ret'.n)
                        => ret'.out = ret.out
              ELSE /\ ret'.ncalc = 1
                   /\ getattr(WorldNext, d, "updated")
      ]_vars

\* integrate(image, 1) has been repeated on an unchanged configuration.
C2_Witness ==
    /\ ret.op = "integrate"
    /\ ret.n = 1
    /\ ret.ncalc = 0
    /\ ret.out.status = "ok"

\* The attributes detector d resolves: its own, and the class's for the rest.
View(w, d) == <<w.inst[d], [a \in DOMAIN w.klass \ DOMAIN w.inst[d] |-> w.klass[a]]>>

\* C8: a call on one detector changes no attribute (distance, origin, tilt,
\* stale flag, cached geometry) that another detector resolves.
C8_InstancesIndependent ==
    [][ \A d \in DOMAIN inst : View(WorldNext, d) # View(World, d) => ret'.det = d ]_vars

\* A calibrate call on detector 1 has left it its own geometry while
\* detector 2 still resolves the cache attributes to the class-level defaults.
C8_Witness ==
    /\ ret.op = "calibrate"
    /\ ret.det = 1
    /\ "R" \in DOMAIN inst[1]
    /\ DOMAIN inst[2] \cap {"R", "updated"} = {}

\* Detector 2, built by get_detector("PIXIUM") while detector 1 exists,
\* equals it: the lookup has given the defaults another pixium lookup gave.
C9_Witness ==
    /\ ret.op = "get_detector"
    /\ ret.status = "ok"
    /\ ret.name = <<"P", "I", "X", "I", "U", "M">>
    /\ ret.kwargs = NoKwargs
    /\ ret.det = 2
    /\ inst[1] = inst[2]

IsCaseVariant(name, key) ==
    /\ Len(name) = Len(key)
    /\ \A i \in 1..Len(key) : name[i] = key[i] \/ name[i] = Upper(key[i])

Contains(msg, name) ==
    \E off \in 0..(Len(msg) - Len(name)) :
        \A i \in 1..Len(name) : msg[off + i] = name[i]

\* The documented presets, lengths in micrometres.
Documented(key) ==
    IF key = PixiumKey
    THEN [distance |-> 1000000, origin |-> <<147840, 203280>>, tilt |-> <<0, 0>>,
          pixels |-> <<1920, 2640>>, pixelsize |-> <<154, 154>>]
    ELSE [distance |-> 1000000, origin |-> <<204800, 204800>>, tilt |-> <<0, 0>>,
          pixels |-> <<2048, 2048>>, pixelsize |-> <<200, 200>>]

\* C9: get_detector on a case variant of "pixium" or "perkin" adds one new
\* detector and leaves the existing ones alone; the new detector holds that
\* preset's documented default in every attribute the call does not pass as a
\* keyword argument.  On any other name it raises an error whose message
\* contains the name as given, and creates nothing.
C9_PresetLookupIgnoresCase ==
    [][ ret'.op = "get_detector" =>
          IF \E key \in {PixiumKey, PerkinKey} : IsCaseVariant(ret'.name, key)
          THEN LET doc == Documented(CHOOSE key \in {PixiumKey, PerkinKey} :
                                        IsCaseVariant(ret'.name, key))
                   new == inst'[Len(inst')]
               IN  /\ ret'.status = "ok"
                   /\ ret'.det = Len(inst) + 1
                   /\ Len(inst') = Len(inst) + 1
                   /\ SubSeq(inst', 1, Len(inst)) = inst
                   /\ DOMAIN new = DOMAIN doc
                   /\ \A a \in DOMAIN doc \ DOMAIN ret'.kwargs : new[a] = doc[a]
          ELSE /\ ret'.status = "Exception"
               /\ Contains(ret'.message, ret'.name)
               /\ inst' = inst
      ]_vars

NoNaN(data) == \A k \in 1..Len(data) : ~isnan(data[k])

\* The last call was integrate(Im, n) on an image of the detector's shape
\* with every pixel measured, and it returned a profile.
Integrated(n) ==
    /\ ret.op = "integrate"
    /\ ret.n = n
    /\ ret.out.status = "ok"
    /\ ret.Im.shape = getattr(World, ret.det, "pixels")
    /\ NoNaN(ret.Im.data)

NearestBin(g, k) == RoundHalfUp(g.R[k], Q * g.dr)

\* The positions of a profile that pixel k is assigned to: for n = 1 the
\* position of its nearest bin; for n > 1, in the column of its sector, the
\* two bins around its radius.
AssignedN1(g, k) == {b \in 1..Len(g.nR) : g.nR[b] = NearestBin(g, k) * g.dr}

AssignedPie(g, k, n) ==
    {<<Sector(g.T[k], n) + 1, Trunc(g.R[k], Q * g.dr) + 1>>,
     <<Sector(g.T[k], n) + 1, Trunc(g.R[k], Q * g.dr) + 2>>}

\* C5, n = 1: with one measured pixel replaced by NaN, every bin other than
\* that pixel's keeps its value, which is not NaN.
C5_N1 ==
    Integrated(1) =>
        \A k \in 1..Len(ret.Im.data) :
            LET out2 == integrateOut(ret.geom, WithNaN(ret.Im, k), 1)
            IN  /\ out2.status = "ok"
                /\ \A b \in 1..Len(ret.out.A) \ AssignedN1(ret.geom, k) :
                      out2.A[b] = ret.out.A[b] /\ ~isnan(out2.A[b][1])

\* C5, n > 1: the same, the pixel's bins being the two around its radius in
\* the column of its sector.
C5_Pie ==
    \A n \in PieCountsBin \ {1} :
        Integrated(n) =>
            \A k \in 1..Len(ret.Im.data) :
                LET out2 == integrateOut(ret.geom, WithNaN(ret.Im, k), n)
                IN  /\ out2.status = "ok"
                    /\ \A s \in 1..n : \A b \in 1..Len(ret.out.A[s]) :
                          <<s, b>> \notin AssignedPie(ret.geom, k, n)
                            => out2.A[s][b] = ret.out.A[s][b] /\ ~isnan(out2.A[s][b][1])

\* C5: unmeasured pixels never contribute to a profile, for n = 1 and n > 1.
C5_NaNNeverContributes == C5_N1 /\ C5_Pie

\* C6: the weights _pie accumulates for a sector without NaN pixels sum to
\* the number of pixels of the sector.
C6_WeightConserved ==
    \A n \in PieCountsBin \ {1} :
        Integrated(n) =>
            \A i \in 0..(n - 1) :
                LET j == SectorPixels(ret.geom, n, i)
                IN  SumSeq(pieAC(Take(ret.Im.data, j), Take(ret.geom.R, j), ret.geom.dr).C)
                        = Len(j) * Q * ret.geom.dr

\* C7: integrate on an image whose shape is not the detector's pixel grid
\* ends in an error.
C7_ShapeMismatchRaises ==
    (ret.op = "integrate" /\ ret.Im.shape # getattr(World, ret.det, "pixels"))
        => ret.out.status # "ok"

\* The counts of the returned bins add up to the pixel count.
C10_CountsComplete == Integrated(1) => SumSeq(ret.geom.dcj) = Len(ret.geom.R)

\* Every returned bin holds the sum over its pixels divided by their number.
C10_BinValues ==
    Integrated(1) =>
        \A b \in 1..Len(ret.geom.nR) :
            LET in(k) == b \in AssignedN1(ret.geom, k)
                P     == Len(ret.geom.R)
            IN  ret.out.A[b] =
                    <<SumSeq([k \in 1..P |-> IF in(k) THEN ret.Im.data[k] ELSE 0]),
                      SumSeq([k \in 1..P |-> IF in(k) THEN 1 ELSE 0])>>

\* C10: integrate(image, 1) assigns every pixel to exactly one returned bin:
\* the bin counts add up to the pixel count, every pixel's nearest bin is
\* returned, and every bin holds the mean of its pixels.
C10_EveryPixelInOneReturnedBin ==
    /\ C10_CountsComplete
    /\ Integrated(1) => \A k \in 1..Len(ret.geom.R) : AssignedN1(ret.geom, k) # {}
    /\ C10_BinValues

====
